---- MODULE Spec2Model ----
(***************************************************************************)
(* entrait_macros: the generic-parameter and signature analysis engine.    *)
(*                                                                         *)
(* One macro invocation processes the functions of one trait in declared   *)
(* order.  For every function TraitFnAnalyzer::analyze classifies the      *)
(* dependency parameter (GenericsAnalyzer::analyze_fn_deps, which also     *)
(* feeds the trait generics accumulator) and converts the signature        *)
(* (SignatureConverter).  When the functions are done,                     *)
(* detect_trait_dependency_mode resolves the trait's dependency mode and   *)
(* the output is generated: the tokens of the trait and of the delegating  *)
(* impl blocks, or one compile error.                                      *)
(*                                                                         *)
(* Syntax trees are records with a "kind" field naming the syn variant.    *)
(***************************************************************************)
EXTENDS Integers, Sequences, FiniteSets, TLC

VARIABLES
    opts,            \* Opts of the invocation: no_deps, async_strategy
    input_mode,      \* FnInputMode: "SingleFn" or "Module"
    trait_generics,  \* GenericsAnalyzer.trait_generics (the accumulator)
    prev_generics,   \* the accumulator as it was before the last analyze call
    trait_fns,       \* the TraitFn values produced so far, in declared order
    last_sig,        \* the InputSig of the last analyze call (None before it)
    fn_deps,         \* what analyze_fn_deps returned in that call (None before it)
    result,          \* the syn::Result of the last analyze call (None before it)
    ret,             \* the syn::Result of the invocation (None while running)
    pc,              \* "analyze", "failed", "panicked" or "resolved"; for a
                     \* converter on its own "convert", then "converted"
    emitted,         \* the tokens the invocation emits (None while running)
    budget           \* the syntactic size the rest of the input may still have

vars == <<opts, input_mode, trait_generics, prev_generics, trait_fns,
          last_sig, fn_deps, result, ret, pc, emitted, budget>>

\* The total syntactic size of one macro input: every function counts one,
\* and so does every wrapper, generic parameter, where-predicate, extra
\* parameter, modifier and non-default option.
MaxSize == 4

(***************************************************************************)
(* Option, Result                                                          *)
(***************************************************************************)
None == [kind |-> "None"]
Some(v) == [kind |-> "Some", value |-> v]
Ok(v) == [kind |-> "Ok", value |-> v]
Err(span, message) == [kind |-> "Err", span |-> span, message |-> message]

\* The span of an identifier (the other spans are the syntax they cover).
SpanOf(ident) == [kind |-> "Ident", ident |-> ident]

\* The elements of s other than s[idx], in order.
AllButIndex(s, idx) ==
    [i \in 1..(Len(s) - 1) |-> IF i < idx THEN s[i] ELSE s[i + 1]]

(***************************************************************************)
(* syn::Type                                                               *)
(***************************************************************************)
TypeImplTrait(bounds) == [kind |-> "ImplTrait", bounds |-> bounds]
TypePath(qself, leading_colon, segments) ==
    [kind |-> "Path", qself |-> qself, leading_colon |-> leading_colon,
     segments |-> segments]
TypeReference(lifetime, mutability, elem) ==
    [kind |-> "Reference", lifetime |-> lifetime, mutability |-> mutability,
     elem |-> elem]
TypeParen(elem) == [kind |-> "Paren", elem |-> elem]
TypeTuple == [kind |-> "Tuple"]
PathOf(ident) == TypePath(FALSE, FALSE, <<ident>>)

TraitBound(path) == [kind |-> "Trait", path |-> path]

(***************************************************************************)
(* syn::GenericParam, syn::WherePredicate, syn::Generics                   *)
(***************************************************************************)
TypeParam(ident, bounds) == [kind |-> "Type", ident |-> ident, bounds |-> bounds]
ConstParam(ident) == [kind |-> "Const", ident |-> ident]
LifetimeDef(lifetime) == [kind |-> "Lifetime", lifetime |-> lifetime]

PredicateType(bounded_ty, bounds) ==
    [kind |-> "Type", bounded_ty |-> bounded_ty, bounds |-> bounds]
PredicateLifetime(lifetime, bounds) ==
    [kind |-> "Lifetime", lifetime |-> lifetime, bounds |-> bounds]

WhereClause(predicates) == [predicates |-> predicates]

\* lt_token stands for the pair of angle-bracket tokens.
Generics(lt_token, params, where_clause) ==
    [lt_token |-> lt_token, params |-> params, where_clause |-> where_clause]

(***************************************************************************)
(* syn::FnArg, syn::Signature                                              *)
(***************************************************************************)
Receiver(reference, mutability) ==
    [kind |-> "Receiver", reference |-> reference, mutability |-> mutability]
PatIdent(ident) == [kind |-> "Ident", ident |-> ident]
PatTuple(elems) == [kind |-> "Tuple", elems |-> elems]
Typed(pat, ty) == [kind |-> "Typed", pat |-> pat, ty |-> ty]

Signature(asyncness, inputs, generics, output) ==
    [ident |-> "foo", asyncness |-> asyncness, inputs |-> inputs,
     generics |-> generics, output |-> output]

(***************************************************************************)
(* FnDeps, TraitGenerics, TraitDependencyMode                              *)
(***************************************************************************)
NoDeps == [kind |-> "NoDeps"]
GenericDeps(generic_param, trait_bounds) ==
    [kind |-> "Generic", generic_param |-> generic_param,
     trait_bounds |-> trait_bounds]
ConcreteDeps(ty) == [kind |-> "Concrete", ty |-> ty]

TraitGenerics(params, where_predicates) ==
    [params |-> params, where_predicates |-> where_predicates]

ModeGeneric == [kind |-> "Generic"]
ModeConcrete(ty) == [kind |-> "Concrete", ty |-> ty]

\* What a GenericsAnalyzer method leaves behind: the accumulator and its
\* return value.
Outcome(tg, res) == [tg |-> tg, res |-> res]

(***************************************************************************)
(* GenericsAnalyzer                                                        *)
(***************************************************************************)
extract_trait_bounds(bounds) == [i \in 1..Len(bounds) |-> bounds[i]]

IsTypeOrConst(param) == param.kind \in {"Type", "Const"}

\* Has(seq, x): x is an element of seq.
Has(seq, x) == \E i \in 1..Len(seq) : seq[i] = x

\* A parameter the accumulator already holds is not pushed again.
deps_with_generics_SkipKnown(tg, deps, generics) ==
    Outcome(
        TraitGenerics(
            tg.params \o SelectSeq(generics.params,
                             LAMBDA p : IsTypeOrConst(p) /\ ~Has(tg.params, p)),
            tg.where_predicates \o
                (IF generics.where_clause.kind = "Some"
                 THEN generics.where_clause.value.predicates
                 ELSE <<>>)),
        Ok(deps))

\* The parameters and predicates of a function go in front of the ones held.
deps_with_generics_Prepend(tg, deps, generics) ==
    Outcome(
        TraitGenerics(
            SelectSeq(generics.params, IsTypeOrConst) \o tg.params,
            (IF generics.where_clause.kind = "Some"
             THEN generics.where_clause.value.predicates
             ELSE <<>>) \o tg.where_predicates),
        Ok(deps))

\* The where-clause is not moved.
deps_with_generics_NoWhere(tg, deps, generics) ==
    Outcome(
        TraitGenerics(
            tg.params \o SelectSeq(generics.params, IsTypeOrConst),
            tg.where_predicates),
        Ok(deps))

deps_with_generics(tg, deps, generics) ==
    Outcome(
        TraitGenerics(
            tg.params \o SelectSeq(generics.params, IsTypeOrConst),
            tg.where_predicates \o
                (IF generics.where_clause.kind = "Some"
                 THEN generics.where_clause.value.predicates
                 ELSE <<>>)),
        Ok(deps))

\* The index of the first type parameter named ident, 0 when there is none.
MatchingIndex(params, ident) ==
    LET hits == {i \in 1..Len(params) :
                    params[i].kind = "Type" /\ params[i].ident = ident}
    IN IF hits = {} THEN 0 ELSE CHOOSE i \in hits : \A j \in hits : i <= j

\* The identifier of a single-segment predicate is not compared.
PredicateRoute_AnyIdent(predicate, ident) ==
    IF predicate.kind = "Type"
    THEN IF predicate.bounded_ty.kind = "Path"
         THEN LET type_path == predicate.bounded_ty
              IN IF type_path.qself \/ type_path.leading_colon THEN "push"
                 ELSE IF Len(type_path.segments) # 1 THEN "push"
                 ELSE "merge"
         ELSE "push"
    ELSE "push"

\* The where-clause loop of find_deps_generic_bounds for one predicate:
\* "push" moves it to the accumulator, "merge" adds its bounds to the
\* dependency's bounds, "skip" does neither.
PredicateRoute(predicate, ident) ==
    IF predicate.kind = "Type"
    THEN IF predicate.bounded_ty.kind = "Path"
         THEN LET type_path == predicate.bounded_ty
              IN IF type_path.qself \/ type_path.leading_colon THEN "push"
                 ELSE IF Len(type_path.segments) # 1 THEN "push"
                 ELSE IF type_path.segments[1] = ident THEN "merge"
                 ELSE "skip"
         ELSE "push"
    ELSE "push"

RECURSIVE WhereBounds(_, _, _)
WhereBounds(predicates, i, ident) ==
    IF i > Len(predicates) THEN <<>>
    ELSE (IF PredicateRoute(predicates[i], ident) = "merge"
          THEN extract_trait_bounds(predicates[i].bounds)
          ELSE <<>>) \o WhereBounds(predicates, i + 1, ident)

find_deps_generic_bounds(tg, input_sig, generic_param_ident) ==
    LET generics == input_sig.generics
        generic_params == generics.params
        matching_index == MatchingIndex(generic_params, generic_param_ident)
        predicates == IF generics.where_clause.kind = "Some"
                      THEN generics.where_clause.value.predicates
                      ELSE <<>>
        Pushed(p) == PredicateRoute(p, generic_param_ident) = "push"
    IN IF matching_index = 0
       THEN Outcome(tg, None)
       ELSE Outcome(
                TraitGenerics(
                    tg.params \o AllButIndex(generic_params, matching_index),
                    tg.where_predicates \o SelectSeq(predicates, Pushed)),
                Some(GenericDeps(
                    Some(generic_param_ident),
                    extract_trait_bounds(generic_params[matching_index].bounds)
                        \o WhereBounds(predicates, 1, generic_param_ident))))

\* extract_deps_from_type, ImplTrait arm.
\* A missing arm: impl Trait falls through to the catch-all Concrete arm.
extract_deps_from_impl_trait_Concrete(tg, input_sig, ty) ==
    deps_with_generics(tg, ConcreteDeps(ty), input_sig.generics)

extract_deps_from_impl_trait(tg, input_sig, ty) ==
    deps_with_generics(
        tg, GenericDeps(None, extract_trait_bounds(ty.bounds)), input_sig.generics)

\* extract_deps_from_type, Path arm.
\* A path of several segments is rejected instead of taken as Concrete.
extract_deps_from_path_RejectSegments(tg, input_sig, ty) ==
    IF ty.qself THEN Outcome(tg, Err(ty, "No self allowed"))
    ELSE IF ty.leading_colon
    THEN Outcome(tg, Err(ty, "No leading colon allowed"))
    ELSE IF Len(ty.segments) # 1
    THEN Outcome(tg, Err(ty, "No path allowed"))
    ELSE LET found == find_deps_generic_bounds(tg, input_sig, ty.segments[1])
         IN IF found.res.kind = "Some"
            THEN Outcome(found.tg, Ok(found.res.value))
            ELSE deps_with_generics(found.tg, ConcreteDeps(ty), input_sig.generics)

\* The leading-separator check is missing.
extract_deps_from_path_NoColonCheck(tg, input_sig, ty) ==
    IF ty.qself THEN Outcome(tg, Err(ty, "No self allowed"))
    ELSE IF Len(ty.segments) # 1
    THEN deps_with_generics(tg, ConcreteDeps(ty), input_sig.generics)
    ELSE LET found == find_deps_generic_bounds(tg, input_sig, ty.segments[1])
         IN IF found.res.kind = "Some"
            THEN Outcome(found.tg, Ok(found.res.value))
            ELSE deps_with_generics(found.tg, ConcreteDeps(ty), input_sig.generics)

\* The generics are moved to the accumulator before the path is checked.
extract_deps_from_path_PushThenCheck(tg, input_sig, ty) ==
    IF ty.qself
    THEN Outcome(deps_with_generics(tg, NoDeps, input_sig.generics).tg,
                 Err(ty, "No self allowed"))
    ELSE IF ty.leading_colon
    THEN Outcome(deps_with_generics(tg, NoDeps, input_sig.generics).tg,
                 Err(ty, "No leading colon allowed"))
    ELSE IF Len(ty.segments) # 1
    THEN deps_with_generics(tg, ConcreteDeps(ty), input_sig.generics)
    ELSE LET found == find_deps_generic_bounds(tg, input_sig, ty.segments[1])
         IN IF found.res.kind = "Some"
            THEN Outcome(found.tg, Ok(found.res.value))
            ELSE deps_with_generics(found.tg, ConcreteDeps(ty), input_sig.generics)

extract_deps_from_path(tg, input_sig, ty) ==
    IF ty.qself THEN Outcome(tg, Err(ty, "No self allowed"))
    ELSE IF ty.leading_colon
    THEN Outcome(tg, Err(ty, "No leading colon allowed"))
    ELSE IF Len(ty.segments) # 1
    THEN deps_with_generics(tg, ConcreteDeps(ty), input_sig.generics)
    ELSE LET found == find_deps_generic_bounds(tg, input_sig, ty.segments[1])
         IN IF found.res.kind = "Some"
            THEN Outcome(found.tg, Ok(found.res.value))
            ELSE deps_with_generics(found.tg, ConcreteDeps(ty), input_sig.generics)

\* The Paren arm is missing: a parenthesized type is taken as Concrete.
RECURSIVE extract_deps_from_type_NoParen(_, _, _)
extract_deps_from_type_NoParen(tg, input_sig, ty) ==
    CASE ty.kind = "ImplTrait" -> extract_deps_from_impl_trait(tg, input_sig, ty)
      [] ty.kind = "Path" -> extract_deps_from_path(tg, input_sig, ty)
      [] ty.kind = "Reference" ->
            extract_deps_from_type_NoParen(tg, input_sig, ty.elem)
      [] OTHER -> deps_with_generics(tg, ConcreteDeps(ty), input_sig.generics)

RECURSIVE extract_deps_from_type(_, _, _)
extract_deps_from_type(tg, input_sig, ty) ==
    CASE ty.kind = "ImplTrait" -> extract_deps_from_impl_trait(tg, input_sig, ty)
      [] ty.kind = "Path" -> extract_deps_from_path(tg, input_sig, ty)
      [] ty.kind = "Reference" -> extract_deps_from_type(tg, input_sig, ty.elem)
      [] ty.kind = "Paren" -> extract_deps_from_type(tg, input_sig, ty.elem)
      [] OTHER -> deps_with_generics(tg, ConcreteDeps(ty), input_sig.generics)

\* The parameter list is inspected before the no_deps option.
analyze_fn_deps_ParamsFirst(tg, input_sig, o) ==
    IF Len(input_sig.inputs) = 0
    THEN Outcome(tg, Err(SpanOf(input_sig.ident),
            "Function must have a dependency 'receiver' as its first parameter"))
    ELSE IF o.no_deps
    THEN deps_with_generics(tg, NoDeps, input_sig.generics)
    ELSE IF input_sig.inputs[1].kind = "Receiver"
    THEN Outcome(tg, Err(input_sig.inputs[1],
            "Function cannot have a self receiver"))
    ELSE extract_deps_from_type(tg, input_sig, input_sig.inputs[1].ty)

\* The check for an empty parameter list is missing: the function is taken to
\* depend on the unit type.
analyze_fn_deps_EmptyAsUnit(tg, input_sig, o) ==
    IF o.no_deps
    THEN deps_with_generics(tg, NoDeps, input_sig.generics)
    ELSE IF Len(input_sig.inputs) = 0
    THEN deps_with_generics(tg, ConcreteDeps(TypeTuple), input_sig.generics)
    ELSE IF input_sig.inputs[1].kind = "Receiver"
    THEN Outcome(tg, Err(input_sig.inputs[1],
            "Function cannot have a self receiver"))
    ELSE extract_deps_from_type(tg, input_sig, input_sig.inputs[1].ty)

\* The receiver check is missing: a self receiver is taken as the dependency.
analyze_fn_deps_ReceiverAsDeps(tg, input_sig, o) ==
    IF o.no_deps
    THEN deps_with_generics(tg, NoDeps, input_sig.generics)
    ELSE IF Len(input_sig.inputs) = 0
    THEN Outcome(tg, Err(SpanOf(input_sig.ident),
            "Function must have a dependency 'receiver' as its first parameter"))
    ELSE IF input_sig.inputs[1].kind = "Receiver"
    THEN deps_with_generics(tg, ConcreteDeps(input_sig.inputs[1]), input_sig.generics)
    ELSE extract_deps_from_type(tg, input_sig, input_sig.inputs[1].ty)

\* A function without parameters is taken to have no dependency.
analyze_fn_deps_EmptyAsNoDeps(tg, input_sig, o) ==
    IF o.no_deps \/ Len(input_sig.inputs) = 0
    THEN deps_with_generics(tg, NoDeps, input_sig.generics)
    ELSE IF input_sig.inputs[1].kind = "Receiver"
    THEN Outcome(tg, Err(input_sig.inputs[1],
            "Function cannot have a self receiver"))
    ELSE extract_deps_from_type(tg, input_sig, input_sig.inputs[1].ty)

analyze_fn_deps(tg, input_sig, o) ==
    IF o.no_deps
    THEN deps_with_generics(tg, NoDeps, input_sig.generics)
    ELSE IF Len(input_sig.inputs) = 0
    THEN Outcome(tg, Err(SpanOf(input_sig.ident),
            "Function must have a dependency 'receiver' as its first parameter"))
    ELSE IF input_sig.inputs[1].kind = "Receiver"
    THEN Outcome(tg, Err(input_sig.inputs[1],
            "Function cannot have a self receiver"))
    ELSE extract_deps_from_type(tg, input_sig, input_sig.inputs[1].ty)

(***************************************************************************)
(* Lifetime analyzer (signature/lifetimes)                                 *)
(***************************************************************************)
LifetimeFact(lifetime, source, user_provided) ==
    [lifetime |-> lifetime, source |-> source, user_provided |-> user_provided]

EntraitSignature(sig, associated_fut_decl, associated_fut_impl, lifetimes) ==
    [sig |-> sig, associated_fut_decl |-> associated_fut_decl,
     associated_fut_impl |-> associated_fut_impl, lifetimes |-> lifetimes]

HasLifetime(facts, lifetime) ==
    \E i \in 1..Len(facts) : facts[i].lifetime = lifetime

\* A lifetime seen at one position: a fact is recorded unless the catalogue
\* already has that lifetime (the first-seen source wins).
Register(facts, lifetime, source, user_provided) ==
    IF HasLifetime(facts, lifetime) THEN facts
    ELSE Append(facts, LifetimeFact(lifetime, source, user_provided))

\* The name synthesized for the n-th elided lifetime of a signature.
ElidedName(n) == "'entrait" \o ToString(n)

\* The lifetimes of the references of a type, outermost first (None: elided).
RECURSIVE TypeRefs(_)
TypeRefs(ty) ==
    CASE ty.kind = "Reference" -> <<ty.lifetime>> \o TypeRefs(ty.elem)
      [] ty.kind = "Paren" -> TypeRefs(ty.elem)
      [] OTHER -> <<>>

Occurrence(source, lifetime) == [source |-> source, lifetime |-> lifetime]

ArgRefs(arg) ==
    IF arg.kind = "Receiver"
    THEN IF arg.reference.kind = "None" THEN <<>>
         ELSE <<Occurrence("Receiver", arg.reference.value)>>
    ELSE [k \in 1..Len(TypeRefs(arg.ty)) |->
             Occurrence("Argument", TypeRefs(arg.ty)[k])]

\* Every reference of the parameter list from parameter i on, in order.
RECURSIVE InputRefs(_, _)
InputRefs(inputs, i) ==
    IF i > Len(inputs) THEN <<>>
    ELSE ArgRefs(inputs[i]) \o InputRefs(inputs, i + 1)

\* The name of the k-th reference: the written one, or one synthesized from
\* the number of elided references before it.
RefName(refs, k) ==
    IF refs[k].lifetime.kind = "Some" THEN refs[k].lifetime.value
    ELSE ElidedName(Cardinality({j \in 1..(k - 1) : refs[j].lifetime.kind = "None"}))

\* The catalogue of the references k.., given the catalogue of those before.
RECURSIVE Catalogue(_, _, _)
Catalogue(refs, k, facts) ==
    IF k > Len(refs) THEN facts
    ELSE Catalogue(refs, k + 1,
             Register(facts, RefName(refs, k), refs[k].source,
                      refs[k].lifetime.kind = "Some"))

\* ty with its references named; k is the index of its first reference.
RECURSIVE NamedType(_, _, _)
NamedType(ty, refs, k) ==
    CASE ty.kind = "Reference" ->
            TypeReference(Some(RefName(refs, k)), ty.mutability,
                          NamedType(ty.elem, refs, k + 1))
      [] ty.kind = "Paren" -> TypeParen(NamedType(ty.elem, refs, k))
      [] OTHER -> ty

NamedArg(inputs, i, refs) ==
    IF inputs[i].kind = "Receiver"
    THEN IF inputs[i].reference.kind = "None" THEN inputs[i]
         ELSE Receiver(
                  Some(Some(RefName(refs, Len(InputRefs(SubSeq(inputs, 1, i - 1), 1)) + 1))),
                  inputs[i].mutability)
    ELSE Typed(inputs[i].pat,
               NamedType(inputs[i].ty, refs,
                         Len(InputRefs(SubSeq(inputs, 1, i - 1), 1)) + 1))

\* The written lifetimes of the return type, in order.  An elided lifetime
\* there names no new lifetime and records nothing.
OutputRefs(output) ==
    IF output.kind = "Type"
    THEN SelectSeq([k \in 1..Len(TypeRefs(output.ty)) |->
                       Occurrence("Return", TypeRefs(output.ty)[k])],
                   LAMBDA r : r.lifetime.kind = "Some")
    ELSE <<>>

\* The parameters are scanned first, then the return type.
de_elide_lifetimes(entrait_sig, receiver_generation) ==
    [entrait_sig EXCEPT
        !.sig.inputs =
            [i \in 1..Len(entrait_sig.sig.inputs) |->
                NamedArg(entrait_sig.sig.inputs, i,
                         InputRefs(entrait_sig.sig.inputs, 1))],
        !.lifetimes =
            Catalogue(OutputRefs(entrait_sig.sig.output), 1,
                Catalogue(InputRefs(entrait_sig.sig.inputs, 1), 1,
                          entrait_sig.lifetimes))]

(***************************************************************************)
(* SignatureConverter                                                      *)
(***************************************************************************)
Panic == [kind |-> "Panic"]

use_associated_future(input_sig, o) ==
    o.async_strategy = "AssociatedFuture" /\ input_sig.asyncness

\* A dependency parameter is kept and a receiver put in front of it.
detect_receiver_generation_Insert(deps, input_sig, o, sig) ==
    IF deps.kind = "NoDeps" THEN "Insert"
    ELSE IF Len(sig.inputs) = 0
    THEN IF use_associated_future(input_sig, o) THEN "Insert" ELSE "None"
    ELSE "Insert"

\* A function without parameters never gets a receiver for its future.
detect_receiver_generation_NoFutureCase(deps, input_sig, o, sig) ==
    IF deps.kind = "NoDeps" THEN "Insert"
    ELSE IF Len(sig.inputs) = 0 THEN "None"
    ELSE "Rewrite"

detect_receiver_generation(deps, input_sig, o, sig) ==
    IF deps.kind = "NoDeps" THEN "Insert"
    ELSE IF Len(sig.inputs) = 0
    THEN IF use_associated_future(input_sig, o) THEN "Insert" ELSE "None"
    ELSE "Rewrite"

RefSelf == Receiver(Some(None), FALSE)
DynImplParam == Typed(PatIdent("__impl"), TypeReference(None, FALSE, PathOf("Impl")))

\* Punctuated::insert: panics when the index is beyond the end.
InsertAt(seq, index, elem) ==
    IF index > Len(seq) THEN Panic
    ELSE Ok(SubSeq(seq, 1, index) \o <<elem>> \o SubSeq(seq, index + 1, Len(seq)))

\* The receiver keeps the mutability of the reference it replaces.
generate_params_KeepMut(sig, receiver_generation, inject_dyn_impl) ==
    LET rewritten ==
            CASE receiver_generation = "Insert" ->
                    Ok(<<RefSelf>> \o sig.inputs)
              [] receiver_generation = "Rewrite" ->
                    LET input == sig.inputs[1]
                    IN IF input.kind = "Typed"
                       THEN IF input.ty.kind = "Reference"
                            THEN Ok(<<Receiver(Some(input.ty.lifetime), input.ty.mutability)>>
                                    \o Tail(sig.inputs))
                            ELSE Ok(<<RefSelf>> \o Tail(sig.inputs))
                       ELSE Panic
              [] OTHER -> Ok(sig.inputs)
        injected ==
            IF rewritten.kind = "Ok" /\ inject_dyn_impl
            THEN InsertAt(rewritten.value, 1, DynImplParam)
            ELSE rewritten
    IN IF injected.kind = "Ok"
       THEN Ok([sig EXCEPT !.inputs = injected.value])
       ELSE Panic

generate_params(sig, receiver_generation, inject_dyn_impl) ==
    LET rewritten ==
            CASE receiver_generation = "Insert" ->
                    Ok(<<RefSelf>> \o sig.inputs)
              [] receiver_generation = "Rewrite" ->
                    LET input == sig.inputs[1]
                    IN IF input.kind = "Typed"
                       THEN IF input.ty.kind = "Reference"
                            THEN Ok(<<Receiver(Some(input.ty.lifetime), FALSE)>>
                                    \o Tail(sig.inputs))
                            ELSE Ok(<<RefSelf>> \o Tail(sig.inputs))
                       ELSE Panic
              [] OTHER -> Ok(sig.inputs)
        injected ==
            IF rewritten.kind = "Ok" /\ inject_dyn_impl
            THEN InsertAt(rewritten.value, 1, DynImplParam)
            ELSE rewritten
    IN IF injected.kind = "Ok"
       THEN Ok([sig EXCEPT !.inputs = injected.value])
       ELSE Panic

FactLifetimes(facts) == [i \in 1..Len(facts) |-> facts[i].lifetime]
IsReceiverFact(fact) == fact.source = "Receiver"
IsGenerated(fact) == ~fact.user_provided
FactParams(facts) == [i \in 1..Len(facts) |-> LifetimeDef(facts[i].lifetime)]

\* An associated-future fragment: form "Decl" is the trait's declaration
\* (type Fut<..>: Future<Output = ..> + Send where Self: ..), form "Impl" the
\* definition (type Fut<..> = impl Future<Output = ..> where Self: ..).
AssociatedFut(form, ident, lifetimes, output, self_lifetimes) ==
    [form |-> form, ident |-> ident, lifetimes |-> lifetimes, output |-> output,
     self_lifetimes |-> self_lifetimes]

output_type_tokens(return_type) ==
    IF return_type.kind = "Default" THEN [kind |-> "Unit"] ELSE return_type.ty

\* The definition fragment is written without its lifetime parameters.
convert_to_associated_future_ImplBare(entrait_sig, receiver_generation, fn_index) ==
    LET de_elided == de_elide_lifetimes(entrait_sig, receiver_generation)
        output_ty == output_type_tokens(de_elided.sig.output)
        fut_lifetimes == FactLifetimes(de_elided.lifetimes)
        self_lifetimes ==
            FactLifetimes(SelectSeq(de_elided.lifetimes, IsReceiverFact))
        fut == "Fut" \o ToString(fn_index)
        sig == de_elided.sig
    IN [de_elided EXCEPT
            !.sig = [sig EXCEPT
                !.asyncness = FALSE,
                !.generics = [sig.generics EXCEPT
                    !.lt_token = TRUE,
                    !.params = sig.generics.params \o
                        FactParams(SelectSeq(de_elided.lifetimes, IsGenerated))],
                !.output = [kind |-> "Type",
                            ty |-> [kind |-> "SelfFut", ident |-> fut,
                                    lifetimes |-> fut_lifetimes]]],
            !.associated_fut_decl =
                Some(AssociatedFut("Decl", fut, fut_lifetimes, output_ty, self_lifetimes)),
            !.associated_fut_impl =
                Some(AssociatedFut("Impl", fut, <<>>, output_ty, self_lifetimes))]

\* The future is named without the ordinal.
convert_to_associated_future_OneName(entrait_sig, receiver_generation, fn_index) ==
    LET de_elided == de_elide_lifetimes(entrait_sig, receiver_generation)
        output_ty == output_type_tokens(de_elided.sig.output)
        fut_lifetimes == FactLifetimes(de_elided.lifetimes)
        self_lifetimes ==
            FactLifetimes(SelectSeq(de_elided.lifetimes, IsReceiverFact))
        fut == "Fut"
        sig == de_elided.sig
    IN [de_elided EXCEPT
            !.sig = [sig EXCEPT
                !.asyncness = FALSE,
                !.generics = [sig.generics EXCEPT
                    !.lt_token = TRUE,
                    !.params = sig.generics.params \o
                        FactParams(SelectSeq(de_elided.lifetimes, IsGenerated))],
                !.output = [kind |-> "Type",
                            ty |-> [kind |-> "SelfFut", ident |-> fut,
                                    lifetimes |-> fut_lifetimes]]],
            !.associated_fut_decl =
                Some(AssociatedFut("Decl", fut, fut_lifetimes, output_ty, self_lifetimes)),
            !.associated_fut_impl =
                Some(AssociatedFut("Impl", fut, fut_lifetimes, output_ty, self_lifetimes))]

\* The where-clause of the future bounds Self by every catalogued lifetime.
convert_to_associated_future_SelfAll(entrait_sig, receiver_generation, fn_index) ==
    LET de_elided == de_elide_lifetimes(entrait_sig, receiver_generation)
        output_ty == output_type_tokens(de_elided.sig.output)
        fut_lifetimes == FactLifetimes(de_elided.lifetimes)
        self_lifetimes == FactLifetimes(de_elided.lifetimes)
        fut == "Fut" \o ToString(fn_index)
        sig == de_elided.sig
    IN [de_elided EXCEPT
            !.sig = [sig EXCEPT
                !.asyncness = FALSE,
                !.generics = [sig.generics EXCEPT
                    !.lt_token = TRUE,
                    !.params = sig.generics.params \o
                        FactParams(SelectSeq(de_elided.lifetimes, IsGenerated))],
                !.output = [kind |-> "Type",
                            ty |-> [kind |-> "SelfFut", ident |-> fut,
                                    lifetimes |-> fut_lifetimes]]],
            !.associated_fut_decl =
                Some(AssociatedFut("Decl", fut, fut_lifetimes, output_ty, self_lifetimes)),
            !.associated_fut_impl =
                Some(AssociatedFut("Impl", fut, fut_lifetimes, output_ty, self_lifetimes))]

\* Every catalogued lifetime is added as a parameter, the written ones too.
convert_to_associated_future_AllFacts(entrait_sig, receiver_generation, fn_index) ==
    LET de_elided == de_elide_lifetimes(entrait_sig, receiver_generation)
        output_ty == output_type_tokens(de_elided.sig.output)
        fut_lifetimes == FactLifetimes(de_elided.lifetimes)
        self_lifetimes ==
            FactLifetimes(SelectSeq(de_elided.lifetimes, IsReceiverFact))
        fut == "Fut" \o ToString(fn_index)
        sig == de_elided.sig
    IN [de_elided EXCEPT
            !.sig = [sig EXCEPT
                !.asyncness = FALSE,
                !.generics = [sig.generics EXCEPT
                    !.lt_token = TRUE,
                    !.params = sig.generics.params \o
                        FactParams(de_elided.lifetimes)],
                !.output = [kind |-> "Type",
                            ty |-> [kind |-> "SelfFut", ident |-> fut,
                                    lifetimes |-> fut_lifetimes]]],
            !.associated_fut_decl =
                Some(AssociatedFut("Decl", fut, fut_lifetimes, output_ty, self_lifetimes)),
            !.associated_fut_impl =
                Some(AssociatedFut("Impl", fut, fut_lifetimes, output_ty, self_lifetimes))]

convert_to_associated_future(entrait_sig, receiver_generation, fn_index) ==
    LET de_elided == de_elide_lifetimes(entrait_sig, receiver_generation)
        output_ty == output_type_tokens(de_elided.sig.output)
        fut_lifetimes == FactLifetimes(de_elided.lifetimes)
        self_lifetimes ==
            FactLifetimes(SelectSeq(de_elided.lifetimes, IsReceiverFact))
        fut == "Fut" \o ToString(fn_index)
        sig == de_elided.sig
    IN [de_elided EXCEPT
            !.sig = [sig EXCEPT
                !.asyncness = FALSE,
                !.generics = [sig.generics EXCEPT
                    !.lt_token = TRUE,
                    !.params = sig.generics.params \o
                        FactParams(SelectSeq(de_elided.lifetimes, IsGenerated))],
                !.output = [kind |-> "Type",
                            ty |-> [kind |-> "SelfFut", ident |-> fut,
                                    lifetimes |-> fut_lifetimes]]],
            !.associated_fut_decl =
                Some(AssociatedFut("Decl", fut, fut_lifetimes, output_ty, self_lifetimes)),
            !.associated_fut_impl =
                Some(AssociatedFut("Impl", fut, fut_lifetimes, output_ty, self_lifetimes))]

is_type_eq_ident(ty, ident) ==
    IF ty.kind = "Path" /\ Len(ty.segments) = 1
    THEN ty.segments[1] = ident
    ELSE FALSE

IsNotTypeParam(param) == param.kind # "Type"

\* The where-clause is left as it is.
remove_generic_type_params_KeepWhere(deps, sig) ==
    [sig EXCEPT !.generics.params = SelectSeq(sig.generics.params, IsNotTypeParam)]

remove_generic_type_params(deps, sig) ==
    LET deps_ident == IF deps.kind = "Generic" THEN deps.generic_param ELSE None
        Survives(predicate) ==
            IF predicate.kind = "Type"
            THEN IF deps_ident.kind = "Some"
                 THEN ~is_type_eq_ident(predicate.bounded_ty, deps_ident.value)
                 ELSE TRUE
            ELSE TRUE
        generics == sig.generics
    IN [sig EXCEPT !.generics =
            [generics EXCEPT
                !.params = SelectSeq(generics.params, IsNotTypeParam),
                !.where_clause =
                    IF generics.where_clause.kind = "Some"
                    THEN Some(WhereClause(SelectSeq(
                             generics.where_clause.value.predicates, Survives)))
                    ELSE None]]

\* Only the where-clause is tidied; the angle brackets stay.
tidy_generics_KeepBrackets(generics) ==
    [generics EXCEPT
        !.where_clause =
            IF generics.where_clause.kind = "Some"
               /\ Len(generics.where_clause.value.predicates) = 0
            THEN None ELSE generics.where_clause]

tidy_generics(generics) ==
    [generics EXCEPT
        !.where_clause =
            IF generics.where_clause.kind = "Some"
               /\ Len(generics.where_clause.value.predicates) = 0
            THEN None ELSE generics.where_clause,
        !.lt_token = IF Len(generics.params) = 0 THEN FALSE ELSE generics.lt_token]

\* What fix_fn_param_idents makes of a pattern that is not an identifier.
FixedPat(pat) == [kind |-> "Fixed", of |-> pat]

\* The call cannot fail (its value is dropped); identifier patterns are kept.
fix_fn_param_idents(sig) ==
    [sig EXCEPT !.inputs =
        [i \in 1..Len(sig.inputs) |->
            IF sig.inputs[i].kind = "Typed" /\ sig.inputs[i].pat.kind # "Ident"
            THEN Typed(FixedPat(sig.inputs[i].pat), sig.inputs[i].ty)
            ELSE sig.inputs[i]]]

\* Ok(EntraitSignature), or Panic when generate_params panics.  Parameter
\* attributes are not part of the syntax modelled here, so stripping them
\* changes nothing.
convert_fn_to_trait_fn(input_sig, deps, o, inject_dyn_impl, fn_index) ==
    LET receiver_generation == detect_receiver_generation(deps, input_sig, o, input_sig)
        with_params == generate_params(input_sig, receiver_generation, inject_dyn_impl)
        entrait_sig == EntraitSignature(with_params.value, None, None, <<>>)
        with_future ==
            IF use_associated_future(input_sig, o)
            THEN convert_to_associated_future(entrait_sig, receiver_generation, fn_index)
            ELSE entrait_sig
        removed == remove_generic_type_params(deps, with_future.sig)
    IN IF with_params.kind = "Panic" THEN Panic
       ELSE Ok([with_future EXCEPT
                    !.sig = fix_fn_param_idents(
                        [removed EXCEPT !.generics = tidy_generics(removed.generics)])])

(***************************************************************************)
(* TraitFnAnalyzer, detect_trait_dependency_mode                           *)
(***************************************************************************)
TraitFn(input_sig, deps, entrait_sig) ==
    [input_sig |-> input_sig, deps |-> deps, entrait_sig |-> entrait_sig]

\* The result of TraitFnAnalyzer::analyze and the accumulator it leaves.
analyze(tg, input_sig, o, inject_dyn_impl, fn_index) ==
    LET analyzed == analyze_fn_deps(tg, input_sig, o)
        converted == convert_fn_to_trait_fn(
                         input_sig, analyzed.res.value, o, inject_dyn_impl, fn_index)
    IN IF analyzed.res.kind = "Err" THEN analyzed
       ELSE IF converted.kind = "Panic" THEN Outcome(analyzed.tg, Panic)
       ELSE Outcome(analyzed.tg,
                    Ok(TraitFn(input_sig, analyzed.res.value, converted.value)))

\* The scan keeps the last Concrete function instead of the first.
FirstConcrete_Last(fns) ==
    LET hits == {i \in 1..Len(fns) : fns[i].deps.kind = "Concrete"}
    IN IF hits = {} THEN 0 ELSE CHOOSE i \in hits : \A j \in hits : i >= j

\* The index of the first Concrete function, 0 when there is none.
FirstConcrete(fns) ==
    LET hits == {i \in 1..Len(fns) : fns[i].deps.kind = "Concrete"}
    IN IF hits = {} THEN 0 ELSE CHOOSE i \in hits : \A j \in hits : i <= j

detect_trait_dependency_mode(mode, fns) ==
    LET first == FirstConcrete(fns)
    IN IF first # 0
       THEN IF mode = "SingleFn"
            THEN Ok(ModeConcrete(fns[first].deps.ty))
            ELSE Err(fns[first].deps.ty,
                     "Using concrete dependencies in a module is an anti-pattern. Instead, write a trait manually")
       ELSE Ok(ModeGeneric)

(***************************************************************************)
(* Code generation (entrait.rs): the delegating functions, the output      *)
(***************************************************************************)
\* generics::Deps::is_deps_param; index counts from 1 here.
is_deps_param(deps, index) == deps.kind # "NoDeps" /\ index = 1

\* The closure of gen_delegating_fn_item for one parameter: None when the
\* parameter is filtered out, else Some of the argument or of the error.
\* A self receiver after the dependency parameter is cited like any argument.
DelegatingArg_CiteReceiver(arg, index, receiver_kind, deps) ==
    IF is_deps_param(deps, index)
    THEN CASE receiver_kind = "SelfArg" -> Some(Ok("self"))
           [] receiver_kind = "RefSelfArg" -> Some(Ok("&self"))
           [] OTHER -> None
    ELSE Some(IF arg.kind = "Receiver" THEN Ok("self")
              ELSE IF arg.pat.kind = "Ident" THEN Ok(arg.pat.ident)
              ELSE Err(arg, "Expected ident for function argument"))

DelegatingArg(arg, index, receiver_kind, deps) ==
    IF is_deps_param(deps, index)
    THEN CASE receiver_kind = "SelfArg" -> Some(Ok("self"))
           [] receiver_kind = "RefSelfArg" -> Some(Ok("&self"))
           [] OTHER -> None
    ELSE Some(IF arg.kind = "Receiver" THEN Err(arg, "Unexpected receiver arg")
              ELSE IF arg.pat.kind = "Ident" THEN Ok(arg.pat.ident)
              ELSE Err(arg, "Expected ident for function argument"))

\* collect::<Result<Vec<_>, _>>() over the parameters index..: the arguments
\* after acc, or the first error.
RECURSIVE CollectArgs(_, _, _, _, _)
CollectArgs(inputs, index, receiver_kind, deps, acc) ==
    IF index > Len(inputs) THEN Ok(acc)
    ELSE IF DelegatingArg(inputs[index], index, receiver_kind, deps).kind = "None"
    THEN CollectArgs(inputs, index + 1, receiver_kind, deps, acc)
    ELSE IF DelegatingArg(inputs[index], index, receiver_kind, deps).value.kind = "Err"
    THEN DelegatingArg(inputs[index], index, receiver_kind, deps).value
    ELSE CollectArgs(inputs, index + 1, receiver_kind, deps,
             Append(acc, DelegatingArg(inputs[index], index, receiver_kind, deps).value.value))

FnItem(sig, receiver_kind, arguments, dot_await) ==
    [sig |-> sig, receiver_kind |-> receiver_kind, arguments |-> arguments,
     dot_await |-> dot_await]

gen_delegating_fn_item(fn_sig, entrait_sig, receiver_kind, deps) ==
    LET arguments == CollectArgs(fn_sig.inputs, 1, receiver_kind, deps, <<>>)
    IN IF arguments.kind = "Err" THEN arguments
       ELSE Ok(FnItem(entrait_sig.sig, receiver_kind, arguments.value,
                      fn_sig.asyncness /\ entrait_sig.associated_fut_decl.kind = "None"))

ReceiverKindOf(deps) ==
    CASE deps.kind = "Generic" -> "SelfArg"
      [] deps.kind = "Concrete" -> "SelfAsRefReceiver"
      [] OTHER -> "RefSelfArg"

\* The delegating functions of one function's impl blocks: one for
\* Impl<EntraitT> and, for a Concrete dependency, one for the concrete type.
gen_impl_blocks(trait_fn) ==
    LET generic_fn_def ==
            gen_delegating_fn_item(trait_fn.input_sig, trait_fn.entrait_sig,
                                   ReceiverKindOf(trait_fn.deps), trait_fn.deps)
        concrete_fn_def ==
            gen_delegating_fn_item(trait_fn.input_sig, trait_fn.entrait_sig,
                                   "SelfArg", trait_fn.deps)
    IN IF generic_fn_def.kind = "Err" THEN generic_fn_def
       ELSE IF trait_fn.deps.kind = "Concrete"
       THEN IF concrete_fn_def.kind = "Err" THEN concrete_fn_def
            ELSE Ok(<<generic_fn_def.value, concrete_fn_def.value>>)
       ELSE Ok(<<generic_fn_def.value>>)

\* The error of a later function replaces that of an earlier one.
RECURSIVE ImplBlocks_Last(_, _, _)
ImplBlocks_Last(fns, index, acc) ==
    IF index > Len(fns) THEN Ok(acc)
    ELSE IF ImplBlocks_Last(fns, index + 1, <<>>).kind = "Err"
    THEN ImplBlocks_Last(fns, index + 1, <<>>)
    ELSE IF gen_impl_blocks(fns[index]).kind = "Err" THEN gen_impl_blocks(fns[index])
    ELSE Ok(acc \o gen_impl_blocks(fns[index]).value
                \o ImplBlocks_Last(fns, index + 1, <<>>).value)

\* The impl blocks of the functions index.., in declared order, after acc, or
\* the first error.
RECURSIVE ImplBlocks(_, _, _)
ImplBlocks(fns, index, acc) ==
    IF index > Len(fns) THEN Ok(acc)
    ELSE IF gen_impl_blocks(fns[index]).kind = "Err" THEN gen_impl_blocks(fns[index])
    ELSE ImplBlocks(fns, index + 1, acc \o gen_impl_blocks(fns[index]).value)

Tokens(fns, trait_def, impl_blocks) ==
    [kind |-> "Tokens", fns |-> fns, trait_def |-> trait_def,
     impl_blocks |-> impl_blocks]
CompileError(err) ==
    [kind |-> "CompileError", span |-> err.span, message |-> err.message]

TraitDef(tg, fns) ==
    [generics |-> tg,
     sigs |-> [i \in 1..Len(fns) |-> fns[i].entrait_sig.sig],
     futs |-> [i \in 1..Len(fns) |-> fns[i].entrait_sig.associated_fut_decl]]

\* output_tokens once the functions are analyzed and the dependency mode is
\* known: the original functions, the trait definition and the impl blocks.
output_tokens(mode, tg, fns) ==
    IF mode.kind = "Err" THEN mode
    ELSE IF ImplBlocks(fns, 1, <<>>).kind = "Err" THEN ImplBlocks(fns, 1, <<>>)
    ELSE Ok(Tokens([i \in 1..Len(fns) |-> fns[i].input_sig],
                   TraitDef(tg, fns), ImplBlocks(fns, 1, <<>>).value))

\* invoke: the tokens on success, else the error as one compile error.
invoke(res) ==
    IF res.kind = "Ok" THEN res.value ELSE CompileError(res)

(***************************************************************************)
(* The inputs: every function signature up to a syntactic size             *)
(***************************************************************************)
PlainTypes ==
    { TypeImplTrait(<<TraitBound("Bar")>>), PathOf("D"), PathOf("AppState"),
      TypeTuple }
CompoundTypes ==
    { TypeImplTrait(<<TraitBound("Bar"), TraitBound("Baz")>>),
      TypePath(FALSE, FALSE, <<"m", "D">>),
      TypePath(FALSE, TRUE, <<"D">>),
      TypePath(TRUE, FALSE, <<"Tr", "D">>) }

Wrappings(ty) ==
    { TypeReference(None, FALSE, ty), TypeReference(Some("'a"), TRUE, ty),
      TypeParen(ty) }

\* The types of syntactic size exactly n.
RECURSIVE TypesOfSize(_)
TypesOfSize(n) ==
    IF n = 0 THEN PlainTypes
    ELSE (IF n = 1 THEN CompoundTypes ELSE {})
         \cup UNION {Wrappings(ty) : ty \in TypesOfSize(n - 1)}

ExtraParams == { Typed(PatIdent("x"), PathOf("i32")) }

InputsOfSize(n) ==
    (IF n = 0 THEN {<<>>, <<Receiver(None, FALSE)>>} ELSE {})
    \cup {<<Typed(PatIdent("deps"), ty)>> : ty \in TypesOfSize(n)}
    \cup (IF n = 0 THEN {}
          ELSE {<<Typed(PatIdent("deps"), ty), extra>> :
                    ty \in TypesOfSize(n - 1), extra \in ExtraParams})

ParamAtoms ==
    { TypeParam("D", <<TraitBound("Bar")>>), TypeParam("T", <<>>),
      ConstParam("N"), LifetimeDef("'a") }

ParamName(param) == IF param.kind = "Lifetime" THEN param.lifetime ELSE param.ident

Declares(params, name) == \E i \in 1..Len(params) : ParamName(params[i]) = name

\* Generic parameter lists of n parameters: the names of one function's
\* parameters differ.
RECURSIVE ParamListsOfLen(_)
ParamListsOfLen(n) ==
    IF n = 0 THEN {<<>>}
    ELSE {Append(pa[1], pa[2]) :
             pa \in {qa \in ParamListsOfLen(n - 1) \X ParamAtoms :
                        ~Declares(qa[1], ParamName(qa[2]))}}

PredicateAtoms ==
    { PredicateType(PathOf("D"), <<TraitBound("Baz")>>),
      PredicateType(PathOf("D"), <<TraitBound("Qux")>>),
      PredicateType(PathOf("T"), <<TraitBound("Clone")>>),
      PredicateType(TypePath(FALSE, TRUE, <<"D">>), <<TraitBound("Baz")>>),
      PredicateType(TypePath(FALSE, FALSE, <<"m", "D">>), <<TraitBound("Baz")>>),
      PredicateType(TypeTuple, <<TraitBound("Baz")>>),
      PredicateLifetime("'a", <<"'b">>) }

RECURSIVE PredicateListsOfLen(_)
PredicateListsOfLen(n) ==
    IF n = 0 THEN {<<>>}
    ELSE {Append(pa[1], pa[2]) : pa \in PredicateListsOfLen(n - 1) \X PredicateAtoms}

\* No where-clause has size 0, an empty one size 1, any other the number of
\* its predicates.
WhereClausesOfSize(n) ==
    IF n = 0 THEN {None}
    ELSE (IF n = 1 THEN {Some(WhereClause(<<>>))} ELSE {})
         \cup {Some(WhereClause(ps)) : ps \in PredicateListsOfLen(n)}

OutputI32 == [kind |-> "Type", ty |-> PathOf("i32")]

\* The parts of the signatures, by size.
InputsBySize == [n \in 0..MaxSize |-> InputsOfSize(n)]
ParamListsByLen == [n \in 0..MaxSize |-> ParamListsOfLen(n)]
WhereClausesBySize == [n \in 0..MaxSize |-> WhereClausesOfSize(n)]

\* The ways to split a size of n over the async modifier, the inputs, the
\* generic parameters and the where-clause.
Splits(n) ==
    {s \in (0..1) \X (0..n) \X (0..n) \X (0..n) : s[1] + s[2] + s[3] + s[4] = n}

AllOpts ==
    [no_deps : BOOLEAN, async_strategy : {"AsyncTrait", "AssociatedFuture"},
     inject_dyn_impl_param : BOOLEAN]

OptsSize(o) ==
    (IF o.no_deps THEN 1 ELSE 0)
    + (IF o.async_strategy = "AssociatedFuture" THEN 1 ELSE 0)
    + (IF o.inject_dyn_impl_param THEN 1 ELSE 0)

(***************************************************************************)
(* One macro invocation                                                    *)
(***************************************************************************)
Init ==
    /\ opts \in AllOpts
    /\ input_mode \in {"SingleFn", "Module"}
    /\ trait_generics = TraitGenerics(<<>>, <<>>)
    /\ prev_generics = TraitGenerics(<<>>, <<>>)
    /\ trait_fns = <<>>
    /\ last_sig = None
    /\ fn_deps = None
    /\ result = None
    /\ ret = None
    /\ pc = "analyze"
    /\ emitted = None
    /\ budget = MaxSize - OptsSize(opts)

\* TraitFnAnalyzer::analyze on the next function of the input, a signature of
\* syntactic size n (the function itself counts one).
Analyze(sig, n) ==
    /\ pc = "analyze"
    /\ input_mode = "SingleFn" => Len(trait_fns) = 0
    /\ LET out == analyze(trait_generics, sig, opts, opts.inject_dyn_impl_param,
                          Len(trait_fns))
       IN /\ trait_generics' = out.tg
          /\ result' = out.res
          /\ trait_fns' = IF out.res.kind = "Ok"
                          THEN Append(trait_fns, out.res.value) ELSE trait_fns
          /\ pc' = CASE out.res.kind = "Ok" -> "analyze"
                     [] out.res.kind = "Err" -> "failed"
                     [] OTHER -> "panicked"
          /\ ret' = IF out.res.kind = "Ok" THEN None ELSE out.res
          /\ emitted' = CASE out.res.kind = "Ok" -> None
                         [] out.res.kind = "Err" -> invoke(out.res)
                         [] OTHER -> Panic
    /\ prev_generics' = trait_generics
    /\ last_sig' = Some(sig)
    /\ fn_deps' = analyze_fn_deps(trait_generics, sig, opts).res
    /\ budget' = budget - n
    /\ UNCHANGED <<opts, input_mode>>

\* detect_trait_dependency_mode, once every function is analyzed, and the
\* generation of the output that follows it.
Resolve ==
    /\ pc = "analyze"
    /\ input_mode = "SingleFn" => Len(trait_fns) = 1
    /\ ret' = detect_trait_dependency_mode(input_mode, trait_fns)
    /\ emitted' = invoke(output_tokens(
                     detect_trait_dependency_mode(input_mode, trait_fns),
                     trait_generics, trait_fns))
    /\ pc' = "resolved"
    /\ UNCHANGED <<opts, input_mode, trait_generics, prev_generics, trait_fns,
                   last_sig, fn_deps, result, budget>>

\* The next function of the input is any signature the budget allows.
AnalyzeNext ==
    \E n \in 1..budget : \E s \in Splits(n - 1) :
        \E inputs \in InputsBySize[s[2]], params \in ParamListsByLen[s[3]],
           wh \in WhereClausesBySize[s[4]] :
           Analyze(Signature(s[1] = 1, inputs,
                             Generics(Len(params) > 0, params, wh), OutputI32), n)

Next == AnalyzeNext \/ Resolve

Spec == Init /\ [][Next]_vars

(***************************************************************************)
(* A trait of up to MaxFns functions, drawn from the signatures that       *)
(* matter to conversion and code generation                                *)
(***************************************************************************)
MaxFns == 2

ConvertInputs ==
    { <<>>,
      <<Typed(PatIdent("deps"), PathOf("D"))>>,
      <<Typed(PatIdent("deps"), TypeReference(None, FALSE, PathOf("D")))>>,
      <<Typed(PatIdent("deps"), TypeReference(Some("'a"), FALSE, PathOf("D")))>>,
      <<Typed(PatIdent("deps"), TypeReference(None, FALSE, PathOf("D"))),
        Typed(PatIdent("y"), TypeReference(None, FALSE, PathOf("i32")))>>,
      <<Typed(PatIdent("deps"), TypeReference(None, FALSE, PathOf("D"))),
        Typed(PatTuple(<<"a", "b">>), TypeTuple)>>,
      <<Typed(PatIdent("deps"), TypeReference(None, FALSE, PathOf("D"))),
        Receiver(None, FALSE)>> }

ConvertGenerics ==
    { Generics(FALSE, <<>>, None),
      Generics(TRUE, <<LifetimeDef("'a"), TypeParam("D", <<TraitBound("Bar")>>)>>,
               None) }

InitConvert ==
    /\ opts \in AllOpts
    /\ input_mode \in {"SingleFn", "Module"}
    /\ trait_generics = TraitGenerics(<<>>, <<>>)
    /\ prev_generics = TraitGenerics(<<>>, <<>>)
    /\ trait_fns = <<>>
    /\ last_sig = None
    /\ fn_deps = None
    /\ result = None
    /\ ret = None
    /\ pc = "analyze"
    /\ emitted = None
    /\ budget = MaxFns

\* The next function of the trait, while the trait may have one more.
AnalyzeConvert ==
    /\ budget > 0
    /\ \E asyncness \in BOOLEAN, inputs \in ConvertInputs,
          generics \in ConvertGenerics :
          Analyze(Signature(asyncness, inputs, generics, OutputI32), 1)

NextConvert == AnalyzeConvert \/ Resolve

SpecConvert == InitConvert /\ [][NextConvert]_vars

(***************************************************************************)
(* The SignatureConverter on its own: a converter value built from any     *)
(* signature, any dependency shape and any options, and converted once     *)
(***************************************************************************)
ConverterDeps ==
    { NoDeps,
      GenericDeps(Some("D"), <<TraitBound("Bar")>>),
      GenericDeps(None, <<TraitBound("Bar")>>),
      ConcreteDeps(PathOf("AppState")) }

ConverterInputs ==
    ConvertInputs \cup
    { <<Typed(PatIdent("deps"), TypeReference(None, TRUE, PathOf("D")))>>,
      <<Typed(PatIdent("deps"), TypeReference(Some("'a"), TRUE, PathOf("D"))),
        Typed(PatIdent("y"), TypeReference(Some("'b"), FALSE, PathOf("i32")))>>,
      <<Typed(PatIdent("deps"), TypeParen(PathOf("D"))),
        Typed(PatIdent("x"), PathOf("i32"))>>,
      <<Receiver(None, FALSE)>> }

ConverterGenerics ==
    ConvertGenerics \cup
    { Generics(TRUE, <<TypeParam("D", <<TraitBound("Bar")>>)>>,
               Some(WhereClause(<<PredicateType(PathOf("D"), <<TraitBound("Baz")>>)>>))),
      Generics(TRUE, <<TypeParam("D", <<>>), ConstParam("N")>>,
               Some(WhereClause(<<PredicateType(TypeTuple, <<TraitBound("Clone")>>)>>))),
      Generics(TRUE, <<>>, Some(WhereClause(<<>>))) }

ConverterOutputs ==
    { [kind |-> "Default"],
      OutputI32,
      [kind |-> "Type", ty |-> TypeReference(Some("'a"), FALSE, PathOf("i32"))],
      [kind |-> "Type", ty |-> TypeReference(Some("'static"), FALSE, PathOf("i32"))] }

\* The fields of the converter value: input_sig (last_sig), deps (fn_deps),
\* opts and inject_dyn_impl_param (opts), fn_index (the number of trait_fns).
InitConverter ==
    /\ opts \in AllOpts
    /\ input_mode = "SingleFn"
    /\ trait_generics = TraitGenerics(<<>>, <<>>)
    /\ prev_generics = TraitGenerics(<<>>, <<>>)
    /\ trait_fns = <<>>
    /\ \E asyncness \in BOOLEAN, inputs \in ConverterInputs,
          generics \in ConverterGenerics, out \in ConverterOutputs :
          last_sig = Some(Signature(asyncness, inputs, generics, out))
    /\ fn_deps \in {Ok(deps) : deps \in ConverterDeps}
    /\ result = None
    /\ ret = None
    /\ pc = "convert"
    /\ emitted = None
    /\ budget = 1

\* SignatureConverter::convert_fn_to_trait_fn on the converter value.
Convert ==
    /\ pc = "convert"
    /\ LET converted == convert_fn_to_trait_fn(
                            last_sig.value, fn_deps.value, opts,
                            opts.inject_dyn_impl_param, Len(trait_fns))
       IN /\ result' = IF converted.kind = "Panic" THEN Panic
                        ELSE Ok(TraitFn(last_sig.value, fn_deps.value,
                                        converted.value))
          /\ trait_fns' = IF converted.kind = "Panic" THEN trait_fns
                          ELSE Append(trait_fns,
                                      TraitFn(last_sig.value, fn_deps.value,
                                              converted.value))
          /\ pc' = IF converted.kind = "Panic" THEN "panicked" ELSE "converted"
          /\ emitted' = IF converted.kind = "Panic" THEN Panic ELSE None
    /\ budget' = 0
    /\ UNCHANGED <<opts, input_mode, trait_generics, prev_generics, last_sig,
                   fn_deps, ret>>

NextConverter == Convert

SpecConverter == InitConverter /\ [][NextConverter]_vars

(***************************************************************************)
(* Properties                                                              *)
(***************************************************************************)
\* The last analyze call, seen from outside.
Called == last_sig.kind = "Some"
TheSig == last_sig.value
TheParams == TheSig.generics.params
ThePredicates ==
    IF TheSig.generics.where_clause.kind = "Some"
    THEN TheSig.generics.where_clause.value.predicates
    ELSE <<>>

\* A type without its reference and parenthesis wrappers.
RECURSIVE Unwrapped(_)
Unwrapped(ty) ==
    IF ty.kind \in {"Reference", "Paren"} THEN Unwrapped(ty.elem) ELSE ty

\* The last call was made with no_deps unset on a typed first parameter.
DepsParam == Called /\ ~opts.no_deps /\ Len(TheSig.inputs) > 0
             /\ TheSig.inputs[1].kind = "Typed"
TheType == Unwrapped(TheSig.inputs[1].ty)

\* ty is a bare identifier: a single-segment path with neither a qualified
\* self nor a leading separator.
IsIdentPath(ty) ==
    ty.kind = "Path" /\ ~ty.qself /\ ~ty.leading_colon /\ Len(ty.segments) = 1

TypeParamNames(params) ==
    {params[i].ident : i \in {j \in 1..Len(params) : params[j].kind = "Type"}}

\* The first parameter's type names one of the function's own type parameters.
NamesOwnGeneric ==
    DepsParam /\ IsIdentPath(TheType)
    /\ TheType.segments[1] \in TypeParamNames(TheParams)

\* The bounds written on identifier ident by the predicates i.. of a
\* where-clause, in source order.
RECURSIVE BoundsOn(_, _, _)
BoundsOn(predicates, i, ident) ==
    IF i > Len(predicates) THEN <<>>
    ELSE (IF predicates[i].kind = "Type" /\ predicates[i].bounded_ty = PathOf(ident)
          THEN predicates[i].bounds ELSE <<>>)
         \o BoundsOn(predicates, i + 1, ident)

DirectBounds(params, ident) ==
    (CHOOSE p \in {params[i] : i \in 1..Len(params)} :
        p.kind = "Type" /\ p.ident = ident).bounds

\* C1: with no_deps unset, a first parameter whose unwrapped type is a bare
\* identifier naming one of the function's own generic type parameters is
\* classified NamedGeneric (FnDeps::Generic with generic_param = that
\* identifier); its trait bounds are the parameter's direct bounds followed by
\* the bounds of every where-predicate on that identifier, in source order.
C1_NamedGeneric ==
    NamesOwnGeneric =>
        fn_deps = Ok(GenericDeps(
                      Some(TheType.segments[1]),
                      DirectBounds(TheParams, TheType.segments[1])
                          \o BoundsOn(ThePredicates, 1, TheType.segments[1])))

\* C1 happens: fn foo<D: Bar>(deps: D) where D: Baz, D: Qux.
C1_Witness ==
    /\ NamesOwnGeneric
    /\ fn_deps.kind = "Ok"
    /\ fn_deps.value.trait_bounds =
           <<TraitBound("Bar"), TraitBound("Baz"), TraitBound("Qux")>>

TypeAndConstParams(params) == SelectSeq(params, LAMBDA p : p.kind # "Lifetime")

\* C2: with no_deps unset, a first parameter whose unwrapped type is impl Trait
\* is classified InlineBounds: FnDeps::Generic without generic_param, with
\* exactly the inline bounds in order; no generic parameter of the function is
\* consumed: all its type and const parameters go to the accumulator.
C2_InlineBounds ==
    (DepsParam /\ TheType.kind = "ImplTrait") =>
        /\ fn_deps = Ok(GenericDeps(None, TheType.bounds))
        /\ trait_generics.params =
               prev_generics.params \o TypeAndConstParams(TheParams)

\* C2 happens: fn foo<D: Bar>(deps: impl Bar + Baz).
C2_Witness ==
    /\ DepsParam /\ TheType.kind = "ImplTrait"
    /\ Len(TheType.bounds) = 2
    /\ "D" \in TypeParamNames(TheParams)
    /\ fn_deps.kind = "Ok"

\* C3 as claimed: with no_deps unset, every first parameter whose unwrapped
\* type is neither impl Trait nor a match for one of the function's own generic
\* type parameters is classified Concrete of that unwrapped type, without error.
C3_Original ==
    (DepsParam /\ TheType.kind # "ImplTrait" /\ ~NamesOwnGeneric) =>
        fn_deps = Ok(ConcreteDeps(TheType))

\* The path has a qualified self or a leading separator.
IsMalformedPath(ty) == ty.kind = "Path" /\ (ty.qself \/ ty.leading_colon)

\* C3 as amended: with no_deps unset, a first parameter whose unwrapped type is
\* neither impl Trait, nor a match for one of the function's own generic type
\* parameters, nor a path with a qualified self or a leading separator, is
\* classified Concrete of that unwrapped type, without error.
C3_Concrete ==
    (DepsParam /\ TheType.kind # "ImplTrait" /\ ~NamesOwnGeneric
     /\ ~IsMalformedPath(TheType)) =>
        fn_deps = Ok(ConcreteDeps(TheType))

\* C3 happens: fn foo<T>(deps: &m::D), a path of two segments under a wrapper.
C3_Witness ==
    /\ DepsParam
    /\ TheSig.inputs[1].ty.kind = "Reference"
    /\ TheType.kind = "Path" /\ Len(TheType.segments) = 2
    /\ ~IsMalformedPath(TheType)
    /\ fn_deps.kind = "Ok" /\ fn_deps.value.kind = "Concrete"

\* The trait's dependency mode is resolved.
Resolved == pc = "resolved"
IsConcreteFn(i) == trait_fns[i].deps.kind = "Concrete"
LeadingConcrete(i) ==
    i \in 1..Len(trait_fns) /\ IsConcreteFn(i) /\ \A j \in 1..(i - 1) : ~IsConcreteFn(j)
ManualTraitMessage ==
    "Using concrete dependencies in a module is an anti-pattern. Instead, write a trait manually"

\* C4: detect_trait_dependency_mode scans the functions in declared order; a
\* Concrete function in a module is an error on the first Concrete function's
\* type that suggests writing the trait manually; in single-function input it
\* gives Concrete of that type; without a Concrete function the mode is Generic.
C4_DependencyMode ==
    Resolved =>
        /\ \A i \in 1..Len(trait_fns) :
              LeadingConcrete(i) =>
                  IF input_mode = "Module"
                  THEN ret = Err(trait_fns[i].deps.ty, ManualTraitMessage)
                  ELSE ret = Ok(ModeConcrete(trait_fns[i].deps.ty))
        /\ (\A i \in 1..Len(trait_fns) : ~IsConcreteFn(i)) => ret = Ok(ModeGeneric)

\* C4 happens: a module of a NamedGeneric function followed by a Concrete one.
C4_Witness ==
    /\ Resolved /\ input_mode = "Module" /\ Len(trait_fns) = 2
    /\ trait_fns[1].deps.kind = "Generic"
    /\ trait_fns[1].deps.generic_param.kind = "Some"
    /\ IsConcreteFn(2)
    /\ ret.kind = "Err"

\* C5: with no_deps set, analyze_fn_deps returns NoDependency whatever the
\* parameter list is, and appends every type and const parameter and every
\* where-predicate of the function to the accumulator.
C5_NoDeps ==
    (Called /\ opts.no_deps) =>
        /\ fn_deps = Ok(NoDeps)
        /\ trait_generics.params =
               prev_generics.params \o TypeAndConstParams(TheParams)
        /\ trait_generics.where_predicates =
               prev_generics.where_predicates \o ThePredicates

\* C5 happens: fn foo<T>(self) where T: Clone, under no_deps.
C5_Witness ==
    /\ Called /\ opts.no_deps
    /\ Len(TheSig.inputs) = 1 /\ TheSig.inputs[1].kind = "Receiver"
    /\ Len(TypeAndConstParams(TheParams)) = 1 /\ Len(ThePredicates) = 1
    /\ fn_deps = Ok(NoDeps)

\* C6: with no_deps unset, an empty parameter list and a self receiver in
\* first position are errors (missing dependency parameter, unexpected
\* receiver), and no dependency shape is returned.
C6_MissingOrReceiver ==
    (Called /\ ~opts.no_deps) =>
        /\ Len(TheSig.inputs) = 0 =>
              fn_deps = Err(SpanOf(TheSig.ident),
                  "Function must have a dependency 'receiver' as its first parameter")
        /\ (Len(TheSig.inputs) > 0 /\ TheSig.inputs[1].kind = "Receiver") =>
              fn_deps = Err(TheSig.inputs[1], "Function cannot have a self receiver")

\* C6 happens: fn foo<T>(self) with no_deps unset.
C6_Witness ==
    /\ Called /\ ~opts.no_deps
    /\ Len(TheSig.inputs) = 1 /\ TheSig.inputs[1].kind = "Receiver"
    /\ Len(TheParams) > 0
    /\ fn_deps.kind = "Err"

\* C7: with no_deps unset, a dependency parameter whose unwrapped type is a
\* path with a qualified self or a leading separator is rejected with an
\* error, whatever the number of its segments; it is neither Concrete nor
\* NamedGeneric.
C7_MalformedPath ==
    (DepsParam /\ IsMalformedPath(TheType)) =>
        /\ fn_deps.kind = "Err"
        /\ fn_deps.span = TheType
        /\ result.kind = "Err"

\* C7 happens: fn foo<D: Bar>(deps: &::D), a leading separator on the name of
\* a generic parameter, under a wrapper.
C7_Witness ==
    /\ DepsParam /\ IsMalformedPath(TheType)
    /\ TheType.segments = <<"D">> /\ "D" \in TypeParamNames(TheParams)
    /\ TheSig.inputs[1].ty.kind = "Reference"
    /\ fn_deps.kind = "Err"

\* The function of the last call was classified NamedGeneric and converted.
NamedGenericConverted ==
    /\ Called /\ result.kind = "Ok"
    /\ result.value.deps.kind = "Generic"
    /\ result.value.deps.generic_param.kind = "Some"
TheDepsIdent == result.value.deps.generic_param.value
TheTraitSig == result.value.entrait_sig.sig
TraitSigPredicates ==
    IF TheTraitSig.generics.where_clause.kind = "Some"
    THEN TheTraitSig.generics.where_clause.value.predicates
    ELSE <<>>

\* C8: for a function classified NamedGeneric, the matched identifier is not
\* in the converted signature's generic parameter list and is the bounded
\* type of none of its where-predicates.
C8_DepsIdentRemoved ==
    NamedGenericConverted =>
        /\ ~Declares(TheTraitSig.generics.params, TheDepsIdent)
        /\ \A i \in 1..Len(TraitSigPredicates) :
              ~(TraitSigPredicates[i].kind = "Type"
                /\ TraitSigPredicates[i].bounded_ty = PathOf(TheDepsIdent))

\* C8 happens: fn foo<'a, D: Bar>(deps: D) where D: Baz keeps 'a only.
C8_Witness ==
    /\ NamedGenericConverted
    /\ Len(TheParams) = 2
    /\ \E i \in 1..Len(ThePredicates) :
          ThePredicates[i].kind = "Type"
          /\ ThePredicates[i].bounded_ty = PathOf(TheDepsIdent)
    /\ Len(TheTraitSig.generics.params) = 1

\* The last call classified its function InlineBounds or Concrete.
InlineOrConcrete ==
    /\ Called /\ fn_deps.kind = "Ok"
    /\ \/ fn_deps.value.kind = "Concrete"
       \/ fn_deps.value.kind = "Generic" /\ fn_deps.value.generic_param.kind = "None"

\* C9: for a function classified InlineBounds or Concrete, all its type and
\* const parameters are appended to the accumulator in their original order,
\* and all its where-predicates are appended unmodified and in order.
C9_AllGenericsMove ==
    InlineOrConcrete =>
        /\ trait_generics.params =
               prev_generics.params \o TypeAndConstParams(TheParams)
        /\ trait_generics.where_predicates =
               prev_generics.where_predicates \o ThePredicates

\* C9 happens: fn foo<N, T>(deps: AppState) where T: Clone (N a const).
C9_Witness ==
    /\ InlineOrConcrete /\ fn_deps.value.kind = "Concrete"
    /\ Len(TheParams) = 2
    /\ \E i, j \in 1..2 : TheParams[i].kind = "Const" /\ TheParams[j].kind = "Type"
    /\ Len(ThePredicates) = 1

\* C10: the accumulated generic parameter list has no duplicates.
C10_NoDuplicates ==
    \A i, j \in 1..Len(trait_generics.params) :
        trait_generics.params[i] = trait_generics.params[j] => i = j

\* C11: after any sequence of analyze_fn_deps calls, the accumulator's
\* parameter list holds no lifetime parameter.
C11_NoLifetimeParams ==
    \A i \in 1..Len(trait_generics.params) :
        trait_generics.params[i].kind # "Lifetime"

\* The last call classified its function NamedGeneric.
NamedGenericClassified ==
    /\ Called /\ fn_deps.kind = "Ok"
    /\ fn_deps.value.kind = "Generic"
    /\ fn_deps.value.generic_param.kind = "Some"

IsBoundOn(predicate, ident) ==
    predicate.kind = "Type" /\ predicate.bounded_ty = PathOf(ident)

\* C12: for a function classified NamedGeneric, every where-predicate that is
\* not a bound on the matched identifier is appended to the accumulator
\* unchanged and in order, a predicate on another generic parameter included.
C12_OtherPredicatesMove ==
    NamedGenericClassified =>
        trait_generics.where_predicates =
            prev_generics.where_predicates
                \o SelectSeq(ThePredicates,
                             LAMBDA p : ~IsBoundOn(p, fn_deps.value.generic_param.value))

\* The last call was made on a function without generics and without async,
\* whose parameters are bound by identifiers.
PlainFn ==
    /\ Called /\ ~TheSig.asyncness
    /\ TheSig.generics = Generics(FALSE, <<>>, None)
    /\ \A i \in 1..Len(TheSig.inputs) :
          TheSig.inputs[i].kind = "Typed" => TheSig.inputs[i].pat.kind = "Ident"

\* Its first parameter is a reference, taken as the dependency and classified
\* Concrete; no auxiliary parameter is requested.
ReferenceReceiver ==
    /\ DepsParam /\ ~opts.inject_dyn_impl_param
    /\ TheSig.inputs[1].ty.kind = "Reference"
    /\ fn_deps.kind = "Ok" /\ fn_deps.value.kind = "Concrete"

\* C13: converting a non-generic, non-async function whose dependency
\* parameter is a reference to a concrete type chooses the Rewrite policy and
\* yields the same signature with the first parameter replaced by the
\* reference's receiver form: name, return type and later parameters are
\* unchanged, no generic parameter is added, the lifetime catalogue is empty
\* and there is no associated-future fragment.
C13_RoundTrip ==
    (PlainFn /\ ReferenceReceiver) =>
        /\ result.kind = "Ok"
        /\ detect_receiver_generation(result.value.deps, TheSig, opts, TheSig)
               = "Rewrite"
        /\ result.value.entrait_sig =
               EntraitSignature(
                   [TheSig EXCEPT !.inputs =
                       <<Receiver(Some(TheSig.inputs[1].ty.lifetime), FALSE)>>
                           \o Tail(TheSig.inputs)],
                   None, None, <<>>)

\* C13 happens: fn foo(deps: &AppState, x: i32) -> i32 gives
\* fn foo(&self, x: i32) -> i32.
C13_Witness ==
    /\ PlainFn /\ ReferenceReceiver
    /\ TheSig.inputs[1].ty = TypeReference(None, FALSE, PathOf("AppState"))
    /\ Len(TheSig.inputs) = 2
    /\ result.kind = "Ok"
    /\ result.value.entrait_sig.sig.inputs = <<RefSelf, TheSig.inputs[2]>>
    /\ result.value.entrait_sig.sig.output = OutputI32

\* The associated-future fragments of the i-th function of the trait.
FutDecl(i) == trait_fns[i].entrait_sig.associated_fut_decl
FutImpl(i) == trait_fns[i].entrait_sig.associated_fut_impl
FutureConverted(i) ==
    trait_fns[i].input_sig.asyncness /\ opts.async_strategy = "AssociatedFuture"

\* C14: in every converted signature the associated-future declaration and
\* definition fragments are both present or both absent; they are present
\* exactly when the function is async and the strategy is associated-future;
\* when present they carry the same identifier and the same lifetime list.
C14_FuturePair ==
    \A i \in 1..Len(trait_fns) :
        /\ FutDecl(i).kind = FutImpl(i).kind
        /\ FutDecl(i).kind = "Some" <=> FutureConverted(i)
        /\ FutDecl(i).kind = "Some" =>
              /\ FutDecl(i).value.form = "Decl" /\ FutImpl(i).value.form = "Impl"
              /\ FutDecl(i).value.ident = FutImpl(i).value.ident
              /\ FutDecl(i).value.lifetimes = FutImpl(i).value.lifetimes

\* C14 happens: async fn foo<'a, D: Bar>(deps: &'a D), future-converted, is
\* followed by a function that is not async; the first has both fragments
\* with the lifetime 'a, the second has none.
C14_Witness ==
    /\ Len(trait_fns) = 2
    /\ FutureConverted(1) /\ ~FutureConverted(2)
    /\ FutDecl(1).kind = "Some" /\ FutImpl(1).kind = "Some"
    /\ FutImpl(1).value.lifetimes = <<"'a">>
    /\ FutDecl(2).kind = "None" /\ FutImpl(2).kind = "None"

SpansOf(sig) ==
    {SpanOf(sig.ident)}
    \cup {sig.inputs[i] : i \in 1..Len(sig.inputs)}
    \cup {Unwrapped(sig.inputs[i].ty) :
             i \in {j \in 1..Len(sig.inputs) : sig.inputs[j].kind = "Typed"}}

AnalyzedSpans ==
    UNION {SpansOf(trait_fns[i].input_sig) : i \in 1..Len(trait_fns)}

IsDepsIndex(fn, i) == fn.deps.kind # "NoDeps" /\ i = 1
Uncitable(fn) ==
    {i \in 1..Len(fn.input_sig.inputs) :
        /\ ~IsDepsIndex(fn, i)
        /\ \/ fn.input_sig.inputs[i].kind = "Receiver"
           \/ fn.input_sig.inputs[i].pat.kind # "Ident"}
Least(set) == CHOOSE i \in set : \A j \in set : i <= j
FailingFns == {i \in 1..Len(trait_fns) : Uncitable(trait_fns[i]) # {}}
FirstUncitable ==
    trait_fns[Least(FailingFns)].input_sig.inputs[
        Least(Uncitable(trait_fns[Least(FailingFns)]))]

\* The invocation is over.
Done == pc \in {"failed", "resolved"}

CitableNames(sig) ==
    {"self", "&self"}
    \cup {sig.inputs[i].pat.ident :
             i \in {j \in 1..Len(sig.inputs) :
                       sig.inputs[j].kind = "Typed"
                       /\ sig.inputs[j].pat.kind = "Ident"}}

UncitableMessage(arg) ==
    IF arg.kind = "Receiver" THEN "Unexpected receiver arg"
    ELSE "Expected ident for function argument"

\* C19: a function with a parameter, other than the dependency parameter,
\* that is a self receiver or whose pattern is not an identifier is rejected:
\* the invocation ends in a compile error, which is the error on that
\* parameter unless an earlier stage failed; so every argument of an emitted
\* delegating call is a receiver form or the name of a parameter.
C19_UncitableRejected ==
    pc = "resolved" =>
        /\ FailingFns # {} => emitted.kind = "CompileError"
        /\ (FailingFns # {} /\ ret.kind = "Ok") =>
              emitted = CompileError(
                  Err(FirstUncitable, UncitableMessage(FirstUncitable)))
        /\ emitted.kind = "Tokens" =>
              \A k \in 1..Len(emitted.impl_blocks) :
                  \A a \in 1..Len(emitted.impl_blocks[k].arguments) :
                      emitted.impl_blocks[k].arguments[a]
                          \in UNION {CitableNames(trait_fns[i].input_sig) :
                                        i \in 1..Len(trait_fns)}

\* C19 happens: fn foo<'a, D: Bar>(deps: &D, (a, b): ()) alone, classified
\* NamedGeneric and converted, is rejected for its tuple pattern.
C19_Witness ==
    /\ pc = "resolved" /\ input_mode = "SingleFn" /\ ret = Ok(ModeGeneric)
    /\ Len(trait_fns) = 1
    /\ trait_fns[1].deps.kind = "Generic"
    /\ Len(trait_fns[1].input_sig.inputs) = 2
    /\ trait_fns[1].input_sig.inputs[2].kind = "Typed"
    /\ trait_fns[1].input_sig.inputs[2].pat.kind = "Tuple"
    /\ emitted.kind = "CompileError"
    /\ emitted.message = "Expected ident for function argument"

\* What a call appended to the accumulator: after without its prefix before.
Contribution(before, after) ==
    TraitGenerics(
        SubSeq(after.params, Len(before.params) + 1, Len(after.params)),
        SubSeq(after.where_predicates, Len(before.where_predicates) + 1,
               Len(after.where_predicates)))

EmptyGenerics == TraitGenerics(<<>>, <<>>)

\* C18: classification does not depend on what the accumulator holds: run
\* again on the accumulator it has just fed, or on an empty one, with the same
\* signature and options, analyze_fn_deps returns the same shape or error and
\* appends the same parameters and where-predicates.
C18_Deterministic ==
    Called =>
        /\ analyze_fn_deps(trait_generics, TheSig, opts).res = fn_deps
        /\ analyze_fn_deps(EmptyGenerics, TheSig, opts).res = fn_deps
        /\ Contribution(trait_generics,
                        analyze_fn_deps(trait_generics, TheSig, opts).tg)
               = Contribution(prev_generics, trait_generics)
        /\ analyze_fn_deps(EmptyGenerics, TheSig, opts).tg
               = Contribution(prev_generics, trait_generics)

\* C18 happens: a module in which fn foo<T>(deps: D) is analyzed twice in a
\* row; each call appends T.
C18_Witness ==
    /\ Len(trait_fns) = 2
    /\ trait_fns[1].input_sig = trait_fns[2].input_sig
    /\ Len(prev_generics.params) = 1
    /\ Contribution(prev_generics, trait_generics).params = prev_generics.params

\* C20: reference and parenthesis wrappers are transparent to classification:
\* the call on a first parameter of a wrapped type returns what the call on
\* the same signature with the wrappers removed returns, shape or error, and
\* leaves the same accumulator.
C20_WrappersTransparent ==
    DepsParam =>
        analyze_fn_deps(prev_generics,
                        [TheSig EXCEPT !.inputs[1].ty = TheType], opts)
            = Outcome(trait_generics, fn_deps)

\* C20 happens: fn foo<D: Bar>(deps: &'a mut (D)), two wrappers around the
\* name of a generic parameter, is classified NamedGeneric on D.
C20_Witness ==
    /\ NamesOwnGeneric
    /\ TheSig.inputs[1].ty.kind = "Reference"
    /\ TheSig.inputs[1].ty.lifetime.kind = "Some"
    /\ TheSig.inputs[1].ty.elem.kind = "Paren"
    /\ fn_deps.kind = "Ok" /\ fn_deps.value.generic_param = Some("D")

\* The function of the last call is to be converted to an associated future.
FutureRequested ==
    Called /\ TheSig.asyncness /\ opts.async_strategy = "AssociatedFuture"

\* The policy the claimed table gives for a dependency shape and a signature.
ExpectedPolicy(deps, sig) ==
    IF deps.kind = "NoDeps" THEN "Insert"
    ELSE IF Len(sig.inputs) = 0
    THEN IF FutureRequested THEN "Insert" ELSE "None"
    ELSE "Rewrite"

\* A type without the lifetimes of its references.
RECURSIVE EraseLifetimes(_)
EraseLifetimes(ty) ==
    CASE ty.kind = "Reference" ->
            TypeReference(None, ty.mutability, EraseLifetimes(ty.elem))
      [] ty.kind = "Paren" -> TypeParen(EraseLifetimes(ty.elem))
      [] OTHER -> ty

\* A converted parameter with the pattern it had before fix_fn_param_idents.
Unfixed(arg) ==
    IF arg.kind = "Typed" /\ arg.pat.kind = "Fixed"
    THEN Typed(arg.pat.of, arg.ty) ELSE arg

\* conv is the parameter orig after conversion: the same pattern and type,
\* to the letter unless lifetimes were de-elided for a future.
SameParam(orig, conv) ==
    /\ conv.kind = orig.kind
    /\ ~FutureRequested => Unfixed(conv) = orig
    /\ orig.kind = "Typed" =>
          /\ Unfixed(conv).pat = orig.pat
          /\ EraseLifetimes(conv.ty) = EraseLifetimes(orig.ty)

\* The number of auxiliary parameters the options ask for.
AuxCount == IF opts.inject_dyn_impl_param THEN 1 ELSE 0

\* A receiver by reference, without mutability.
IsRefSelf(arg) ==
    arg.kind = "Receiver" /\ arg.reference.kind = "Some" /\ ~arg.mutability

\* C21: the receiver-generation policy is Insert for NoDependency whatever
\* the parameters; for a dependency-bearing shape it is Insert with zero
\* parameters and future conversion requested, None with zero parameters
\* otherwise, and Rewrite with at least one parameter.  Under Insert the
\* converted signature has one more parameter than the input (not counting
\* the auxiliary parameter), a &self in first position, and all original
\* parameters after it in order.
C21_PolicySelection ==
    (Called /\ fn_deps.kind = "Ok") =>
        /\ detect_receiver_generation(fn_deps.value, TheSig, opts, TheSig)
               = ExpectedPolicy(fn_deps.value, TheSig)
        /\ (result.kind = "Ok" /\ ExpectedPolicy(fn_deps.value, TheSig) = "Insert") =>
              /\ Len(TheTraitSig.inputs) = Len(TheSig.inputs) + 1 + AuxCount
              /\ IsRefSelf(TheTraitSig.inputs[1])
              /\ ~FutureRequested => TheTraitSig.inputs[1] = RefSelf
              /\ \A i \in 1..Len(TheSig.inputs) :
                    SameParam(TheSig.inputs[i], TheTraitSig.inputs[i + 1 + AuxCount])
        /\ (result.kind = "Ok" /\ ExpectedPolicy(fn_deps.value, TheSig) = "None") =>
              TheTraitSig.inputs = <<>>

\* C21 happens: async fn foo() with a Concrete dependency, to be converted to
\* an associated future, gets a receiver inserted and nothing else.
C21_Witness ==
    /\ Called /\ fn_deps.kind = "Ok" /\ fn_deps.value.kind = "Concrete"
    /\ Len(TheSig.inputs) = 0 /\ FutureRequested
    /\ ~opts.inject_dyn_impl_param
    /\ result.kind = "Ok"
    /\ Len(TheTraitSig.inputs) = 1 /\ IsRefSelf(TheTraitSig.inputs[1])

\* The last conversion went by the Rewrite policy on a typed first parameter.
RewriteCase ==
    /\ Called /\ fn_deps.kind = "Ok" /\ fn_deps.value.kind # "NoDeps"
    /\ Len(TheSig.inputs) > 0 /\ TheSig.inputs[1].kind = "Typed"
    /\ result.kind = "Ok"

\* C22: under Rewrite the dependency parameter is replaced in place by a
\* receiver and the parameter count is unchanged (not counting the auxiliary
\* parameter): for a reference type the receiver is the reference without
\* its mutability, with the written lifetime when there is one; for any
\* other type it is a plain &self.  The later parameters keep their order.
C22_Rewrite ==
    RewriteCase =>
        /\ Len(TheTraitSig.inputs) = Len(TheSig.inputs) + AuxCount
        /\ IsRefSelf(TheTraitSig.inputs[1])
        /\ (TheSig.inputs[1].ty.kind = "Reference"
            /\ (TheSig.inputs[1].ty.lifetime.kind = "Some" \/ ~FutureRequested)) =>
              TheTraitSig.inputs[1] =
                  Receiver(Some(TheSig.inputs[1].ty.lifetime), FALSE)
        /\ (TheSig.inputs[1].ty.kind # "Reference" /\ ~FutureRequested) =>
              TheTraitSig.inputs[1] = RefSelf
        /\ \A i \in 2..Len(TheSig.inputs) :
              SameParam(TheSig.inputs[i], TheTraitSig.inputs[i + AuxCount])

\* C22 happens: fn foo(deps: &'a mut D, y: &'b i32) gives
\* fn foo(&'a self, y: &'b i32).
C22_Witness ==
    /\ RewriteCase /\ ~opts.inject_dyn_impl_param
    /\ TheSig.inputs[1].ty = TypeReference(Some("'a"), TRUE, PathOf("D"))
    /\ Len(TheSig.inputs) = 2
    /\ TheTraitSig.inputs =
           <<Receiver(Some(Some("'a")), FALSE), TheSig.inputs[2]>>

\* The converter has run with the auxiliary parameter requested, on a
\* signature whose first parameter is not a self receiver.
AuxRequested ==
    /\ Called /\ opts.inject_dyn_impl_param
    /\ pc \in {"converted", "panicked"}
    /\ Len(TheSig.inputs) > 0 => TheSig.inputs[1].kind = "Typed"

ZeroParamsNeedDeps ==
    Called /\ ~opts.no_deps /\ Len(TheSig.inputs) = 0 /\ ~FutureRequested

\* C24 as claimed: a zero-parameter function that requires a dependency and is
\* not future-converted passes through TraitFnAnalyzer::analyze without an
\* error and comes out with no receiver transformation applied (the None
\* policy).
C24_Original ==
    ZeroParamsNeedDeps =>
        /\ result.kind = "Ok"
        /\ TheTraitSig.inputs = <<>>

\* The policy by which the i-th function of the trait was converted.
PolicyOf(i) ==
    detect_receiver_generation(trait_fns[i].deps, trait_fns[i].input_sig, opts,
                               trait_fns[i].input_sig)

\* C24 as amended: the None policy is not reached through
\* TraitFnAnalyzer::analyze: a zero-parameter function that requires a
\* dependency is rejected by classification with the missing-dependency
\* error, the accumulator untouched and nothing converted, and every function
\* that analyze has converted went by Insert or Rewrite.
C24_NoneUnreachable ==
    /\ ZeroParamsNeedDeps =>
          /\ result = Err(SpanOf(TheSig.ident),
                 "Function must have a dependency 'receiver' as its first parameter")
          /\ pc = "failed"
          /\ trait_generics = prev_generics
    /\ \A i \in 1..Len(trait_fns) : PolicyOf(i) \in {"Insert", "Rewrite"}

\* C24 happens: after one converted function, fn foo<'a, D: Bar>() with
\* no_deps unset and no future conversion is rejected.
C24_Witness ==
    /\ ZeroParamsNeedDeps /\ ~TheSig.asyncness
    /\ Len(TheSig.generics.params) = 2
    /\ Len(trait_fns) = 1
    /\ result.kind = "Err" /\ pc = "failed"

\* The last call converted its function to an associated future.
FutureConversionDone == FutureRequested /\ result.kind = "Ok"
TheFacts == result.value.entrait_sig.lifetimes
TheFutDecl == result.value.entrait_sig.associated_fut_decl.value
TheFutImpl == result.value.entrait_sig.associated_fut_impl.value

FactsFrom(facts, sources) ==
    FactLifetimes(SelectSeq(facts, LAMBDA f : f.source \in sources))

GeneratedParams == FactParams(SelectSeq(TheFacts, LAMBDA f : ~f.user_provided))

Occurrences(seq, x) == Cardinality({i \in 1..Len(seq) : seq[i] = x})

\* After future conversion the method is not async, and its generic
\* parameters are the surviving ones of the function followed by the
\* lifetimes that are not user-provided, once each, in catalogue order; no
\* user-provided lifetime is added.
GeneratedAppended ==
    /\ ~TheTraitSig.asyncness
    /\ TheTraitSig.generics.params =
           SelectSeq(TheParams, IsNotTypeParam) \o GeneratedParams
    /\ \A i \in 1..Len(TheFacts) :
          Occurrences(TheTraitSig.generics.params, LifetimeDef(TheFacts[i].lifetime))
              = IF TheFacts[i].user_provided
                THEN Occurrences(TheParams, LifetimeDef(TheFacts[i].lifetime))
                ELSE 1

Normalized(generics) ==
    /\ ~(generics.lt_token /\ Len(generics.params) = 0)
    /\ ~(generics.where_clause.kind = "Some"
         /\ Len(generics.where_clause.value.predicates) = 0)

\* C27: every signature returned by conversion is normalized: its generic
\* parameter list is never present-but-empty, and its where-clause is never
\* present with zero predicates.
C27_Normalized ==
    /\ (Called /\ result.kind = "Ok") => Normalized(TheTraitSig.generics)
    /\ \A i \in 1..Len(trait_fns) :
          Normalized(trait_fns[i].entrait_sig.sig.generics)

\* C27 happens: fn foo<D: Bar>(deps: &D) where D: Baz, classified NamedGeneric
\* on D and not future-converted, loses its only parameter and its only
\* predicate, and comes out without generics.
C27_Witness ==
    /\ Called /\ result.kind = "Ok" /\ ~FutureRequested
    /\ TheSig.generics =
           Generics(TRUE, <<TypeParam("D", <<TraitBound("Bar")>>)>>,
                    Some(WhereClause(
                        <<PredicateType(PathOf("D"), <<TraitBound("Baz")>>)>>)))
    /\ result.value.deps.kind = "Generic"
    /\ result.value.deps.generic_param = Some("D")
    /\ TheTraitSig.generics = Generics(FALSE, <<>>, None)

IsPrefix(before, after) ==
    Len(before) <= Len(after) /\ SubSeq(after, 1, Len(before)) = before

\* part is what is left of whole, in the order of whole, when the elements
\* that part does not have are taken out.
InOrderOf(part, whole) ==
    part = SelectSeq(whole, LAMBDA x : Has(part, x))

\* C28: the accumulator is append-only and order-preserving: after each
\* analyze_fn_deps call the previous parameter list and where-predicate list
\* are prefixes of the new ones, so what an earlier function contributed
\* precedes what a later one contributes, and what one function contributes
\* keeps its source order.
C28_AppendOnly ==
    /\ IsPrefix(prev_generics.params, trait_generics.params)
    /\ IsPrefix(prev_generics.where_predicates, trait_generics.where_predicates)
    /\ Called =>
          /\ InOrderOf(Contribution(prev_generics, trait_generics).params,
                       TheParams)
          /\ InOrderOf(Contribution(prev_generics, trait_generics).where_predicates,
                       ThePredicates)

\* C28 happens: a module of fn foo<T>(deps: AppState) and
\* fn foo<N>(deps: AppState) (N a const): the accumulator is <T>, then <T, N>.
C28_Witness ==
    /\ Len(trait_fns) = 2
    /\ prev_generics.params = <<TypeParam("T", <<>>)>>
    /\ trait_generics.params = <<TypeParam("T", <<>>), ConstParam("N")>>
    /\ TheParams = <<ConstParam("N")>>

\* C29: whenever analyze_fn_deps returns an error (empty parameter list,
\* self receiver in first position, qualified-self path, leading-separator
\* path, under wrappers or not), the accumulator is exactly what it was
\* before the call: a failed function contributes no generic parameter and
\* no where-predicate.
C29_ErrorLeavesAccumulator ==
    (Called /\ fn_deps.kind = "Err") =>
        /\ trait_generics = prev_generics
        /\ result = fn_deps

\* C29 happens: fn foo<T>(deps: &::D), a leading separator under a reference,
\* on a function that has a generic parameter to contribute.
C29_Witness ==
    /\ Called /\ fn_deps.kind = "Err"
    /\ DepsParam /\ IsMalformedPath(TheType)
    /\ TheSig.inputs[1].ty.kind = "Reference"
    /\ Len(TypeAndConstParams(TheParams)) = 1
    /\ trait_generics = EmptyGenerics

\* The last call classified and converted its function.
Converted == Called /\ result.kind = "Ok"

\* param is the generic parameter the dependency was matched with.
IsMatchedParam(param) ==
    /\ result.value.deps.kind = "Generic"
    /\ result.value.deps.generic_param.kind = "Some"
    /\ param.kind = "Type"
    /\ param.ident = result.value.deps.generic_param.value

\* The two levels a generic parameter of the function may be declared at.
AtTraitLevel(param) ==
    Has(Contribution(prev_generics, trait_generics).params, param)
AtMethodLevel(param) == Has(TheTraitSig.generics.params, param)

\* C30: classification plus conversion places every generic parameter of the
\* function at exactly one level: a type or const parameter other than the
\* matched dependency parameter in the accumulator and not in the method's
\* generics, a lifetime parameter in the method's generics and not in the
\* accumulator, the matched dependency parameter in neither.
C30_OneLevel ==
    Converted =>
        \A i \in 1..Len(TheParams) :
            IF IsMatchedParam(TheParams[i])
            THEN ~AtTraitLevel(TheParams[i]) /\ ~AtMethodLevel(TheParams[i])
            ELSE IF TheParams[i].kind \in {"Type", "Const"}
            THEN AtTraitLevel(TheParams[i]) /\ ~AtMethodLevel(TheParams[i])
            ELSE AtMethodLevel(TheParams[i]) /\ ~AtTraitLevel(TheParams[i])

====
